---- MODULE Spec2Model ----
(***************************************************************************)
(* examples/notebooks/postestimation_poisson.ipynb as a state machine.     *)
(*                                                                         *)
(* The state is the kernel's namespace (name -> value), the displayed      *)
(* value of each executed code cell, and the position of the run.  One     *)
(* action per code cell; a cell is executed as a unit, its statements in   *)
(* order.  Floating point numbers are fixed-point integers with SCALE      *)
(* units per 1.0; arrays are sequences, 2-d arrays are sequences of rows.  *)
(***************************************************************************)
EXTENDS Integers, Sequences, FiniteSets, TLC

VARIABLES
    pc,        \* position in CellOrder of the next cell to execute
    ns,        \* the namespace after the last cell that ran to completion
    out,       \* the displayed value of each executed cell
    err,       \* the names whose read raised NameError; the run stops there
    last,      \* history: the names bound by the last executed cell
    fits,      \* history: how many times fit has been called
    probRows   \* history: the per-row probabilities cell 6f61baf8 bound to f1, f2

vars == <<pc, ns, out, err, last, fits, probRows>>

-----------------------------------------------------------------------------
(* Bounds of the model *)

\* fixed-point resolution: SCALE units per 1.0
SCALE == 1000
\* seeds of the modelled random stream are 0..MaxSeed
MaxSeed == 1
\* a fitted coefficient is one of the MaxParam grid values
MaxParam == 2
\* largest count a modelled Poisson draw returns
MaxCount == 9

ONE == SCALE

-----------------------------------------------------------------------------
(* Program constants of cell 4a85c587, 3e782b14 and 6f61baf8 *)

nr == 10
n_groups == 2
n == 11
y_max == 5

-----------------------------------------------------------------------------
(* numpy / scipy primitives the notebook calls *)

\* sum of s[lo..hi], halving the range
RECURSIVE SumRange(_, _, _)
SumRange(s, lo, hi) ==
    IF lo > hi THEN 0
    ELSE IF lo = hi THEN s[lo]
    ELSE LET mid == (lo + hi) \div 2
         IN  SumRange(s, lo, mid) + SumRange(s, mid + 1, hi)

SumSeq(s) == SumRange(s, 1, Len(s))

\* np.arange(k): 0, 1, ..., k-1
Arange(k) == [i \in 1..k |-> i - 1]

\* np.repeat(vals, counts): vals[1] counts[1] times, then vals[2] ...
RECURSIVE Repeat(_, _)
Repeat(vals, counts) ==
    IF vals = <<>> THEN <<>>
    ELSE [i \in 1..Head(counts) |-> Head(vals)] \o Repeat(Tail(vals), Tail(counts))

\* np.linspace(0, 1, k): k evenly spaced points, both ends included
Linspace01(k) == [i \in 1..k |-> ((i - 1) * ONE) \div (k - 1)]

\* np.column_stack of a 2-d array and a vector
ColumnStack(rows, col) == [i \in 1..Len(rows) |-> Append(rows[i], col[i])]

\* a @ b for a 2-d array a and a vector b
Dot(row, b) == SumSeq([j \in 1..Len(row) |-> (row[j] * b[j]) \div ONE])
MatVec(rows, b) == [i \in 1..Len(rows) |-> Dot(rows[i], b)]

\* np.exp, by its power series
RECURSIVE ExpSeries(_, _, _, _)
ExpSeries(x, term, k, acc) ==
    IF term = 0 THEN acc
    ELSE ExpSeries(x, (term * x) \div (k * ONE), k + 1, acc + term)

Exp(x) == IF x >= 0 THEN ExpSeries(x, ONE, 1, 0)
          ELSE (ONE * ONE) \div ExpSeries(-x, ONE, 1, 0)

\* column means of a 2-d array: a.mean(0)
MeanAxis0(rows) ==
    [k \in 1..Len(rows[1]) |->
        SumSeq([i \in 1..Len(rows) |-> rows[i][k]]) \div Len(rows)]

\* scipy.stats.poisson(mu): pmf(0), ..., pmf(kmax) by the recurrence
\* pmf(k) = pmf(k-1) * mu / k from pmf(0) = exp(-mu)
RECURSIVE PmfSeq(_, _, _)
PmfSeq(mu, acc, kmax) ==
    IF Len(acc) > kmax THEN acc
    ELSE PmfSeq(mu, Append(acc, (acc[Len(acc)] * mu) \div (Len(acc) * ONE)), kmax)

PoissonPmfSeq(mu, kmax) == PmfSeq(mu, <<Exp(-mu)>>, kmax)

PoissonPmf(mu, k) == PoissonPmfSeq(mu, k)[k + 1]

PoissonCdf(mu, k) == IF k < 0 THEN 0 ELSE SumSeq(PoissonPmfSeq(mu, k))

\* survival function: P(Y > k) = 1 - cdf(k)
PoissonSf(mu, k) == ONE - PoissonCdf(mu, k)

\* the random stream after np.random.seed: draw j of the stream, in [0, 1)
Uniform(seed, j) ==
    (((j * (7919 + 2 * seed) + 611 * seed + 5) % 1009) * ONE) \div 1009

\* np.random.rand(k) taken from draws first+1 .. first+k of the stream
Rand(seed, first, k) == [i \in 1..k |-> Uniform(seed, first + i)]

\* one Poisson draw with mean mu from the uniform draw u (inverse cdf)
RECURSIVE DrawFrom(_, _, _, _)
DrawFrom(pmfs, u, k, cum) ==
    IF k >= MaxCount \/ cum + pmfs[k + 1] > u THEN k
    ELSE DrawFrom(pmfs, u, k + 1, cum + pmfs[k + 1])

PoissonDraw(mu, u) == DrawFrom(PoissonPmfSeq(mu, MaxCount), u, 0, 0)

\* np.random.poisson(mean) taken from draws first+1 .. of the stream
RandPoisson(seed, first, mean) ==
    [i \in 1..Len(mean) |-> PoissonDraw(mean[i], Uniform(seed, first + i))]

-----------------------------------------------------------------------------
(* pandas primitives the notebook calls *)

\* does row a come before row b when sorting by col
Before(a, b, col, ascending) ==
    IF ascending THEN a[col] < b[col] ELSE a[col] > b[col]

\* the index in lo..hi, outside taken, of the row that sorts first by col;
\* among equal keys the earliest row; 0 if there is none
RECURSIVE FirstRow(_, _, _, _, _, _)
FirstRow(df, col, ascending, taken, lo, hi) ==
    IF lo > hi THEN 0
    ELSE IF lo = hi THEN (IF lo \in taken THEN 0 ELSE lo)
    ELSE LET mid == (lo + hi) \div 2
             a == FirstRow(df, col, ascending, taken, lo, mid)
             b == FirstRow(df, col, ascending, taken, mid + 1, hi)
         IN  IF a = 0 THEN b
             ELSE IF b = 0 THEN a
             ELSE IF Before(df[b], df[a], col, ascending) THEN b ELSE a

RECURSIVE SortedPrefix(_, _, _, _, _, _)
SortedPrefix(df, col, ascending, k, taken, acc) ==
    LET i == FirstRow(df, col, ascending, taken, 1, Len(df))
    IN  IF Len(acc) >= k \/ i = 0 THEN acc
        ELSE SortedPrefix(df, col, ascending, k, taken \cup {i}, Append(acc, df[i]))

\* df.sort_values(col, ascending=ascending)[:k]: the first k rows of the
\* frame sorted by col (rows with equal keys keep their order)
SortValuesHead(df, col, ascending, k) ==
    SortedPrefix(df, col, ascending, k, {}, <<>>)

\* df[:k] and df.head(k)
FirstRows(df, k) == SubSeq(df, 1, IF Len(df) < k THEN Len(df) ELSE k)

-----------------------------------------------------------------------------
(* The statsmodels interface the notebook calls:                           *)
(* fit, predict, get_prediction, get_distribution, get_influence           *)

\* the values a fitted coefficient can take
ParamGrid == {(i * ONE) \div 4 : i \in 1..MaxParam}

\* the parameter vectors fit can return for a design with k columns
FitChoices(k) == [1..k -> ParamGrid]

\* Poisson(endog, exog).fit(): the results instance holding params
Results(endog, exog, params) ==
    [params |-> params, endog |-> endog, exog |-> exog, nobs |-> Len(endog)]

\* model.predict(params, exog, which, y_values)
Predict(params, exog, which, y_values) ==
    LET lin == MatVec(exog, params)
    IN  CASE which = "linear" -> lin
          [] which = "mean"   -> [i \in 1..Len(lin) |-> Exp(lin[i])]
          [] which = "prob"   ->
                [i \in 1..Len(lin) |->
                    [k \in 1..Len(y_values) |-> PoissonPmf(Exp(lin[i]), y_values[k])]]

\* res.predict(which=which) on the exog of the fitted model
ResPredict(res, which) == Predict(res.params, res.exog, which, <<>>)

\* res.get_prediction(exog, which, y_values, average): the predicted
\* statistic; with average the mean of the predictions over the rows of exog
GetPrediction(res, exog, which, y_values, average) ==
    LET p == Predict(res.params, exog, which, y_values)
    IN  [predicted |-> IF ~average THEN p
                       ELSE IF which = "prob" THEN MeanAxis0(p)
                       ELSE SumSeq(p) \div Len(p),
         which |-> which, average |-> average, nrows |-> Len(exog)]

\* res.get_distribution(exog): a vectorized poisson with the predicted means
GetDistribution(res, exog) ==
    [mu |-> Predict(res.params, exog, "mean", <<>>)]

DistMean(distr) == distr.mu
DistPmf(distr, k) == [i \in 1..Len(distr.mu) |-> PoissonPmf(distr.mu[i], k)]
DistSf(distr, k) == [i \in 1..Len(distr.mu) |-> PoissonSf(distr.mu[i], k)]

\* integer square root
RECURSIVE IsqrtIn(_, _, _)
IsqrtIn(v, lo, hi) ==
    IF lo >= hi THEN lo
    ELSE LET mid == (lo + hi + 1) \div 2
         IN  IF mid * mid <= v THEN IsqrtIn(v, mid, hi) ELSE IsqrtIn(v, lo, mid - 1)

Sqrt(x) == IsqrtIn(x * ONE, 0, 4 * ONE)

\* res.get_influence()
GetInfluence(res) == [results |-> res]

\* infl.summary_frame(): one row of measures per observation of the model.
\* standard_resid is the Pearson residual; cooks_d is the squared residual
\* weighted by the average leverage k / nobs and divided by k.
SummaryFrame(infl) ==
    LET res == infl.results
        mu  == ResPredict(res, "mean")
        k   == Len(res.params)
        h   == (k * ONE) \div res.nobs
    IN  [i \in 1..res.nobs |->
            LET r == ((res.endog[i] * ONE - mu[i]) * ONE) \div Sqrt(mu[i])
            IN  [obs |-> i - 1,
                 standard_resid |-> r,
                 cooks_d |-> (((r * r) \div ONE) * h) \div (k * ONE)]]

-----------------------------------------------------------------------------
(* The notebook: its code cells in document order *)

\* the t_test cell 4fb15ec2 placed before the fit cell
CellOrder_testBeforeFit ==
    << "3f9f42c9", "4fb15ec2", "35c50372", "4a85c587", "a71b50a3", "898bb259",
       "5c7fd63e", "3e782b14", "eea3c225", "a2a25e09", "1beaeb7a", "6f61baf8",
       "c514f3af", "35071145", "f24e88e2", "796db909", "f2ce91ff", "7a7581e1",
       "628c0593", "83cbe355", "3cfe5e90", "01db4a1b", "7e0d28d4", "f10b68be",
       "35dec411", "042fa854", "0a66859b", "747edf4f", "a4394c8f", "ed583f69",
       "b32625bd", "73bdbcc3", "6335b247", "cd36e5bf", "b1c2c0e6", "55c97fef",
       "ecba7d2b", "2981abb4", "adce9aae" >>

CellOrder ==
    << "3f9f42c9", "4a85c587", "35c50372", "4fb15ec2", "a71b50a3", "898bb259",
       "5c7fd63e", "3e782b14", "eea3c225", "a2a25e09", "1beaeb7a", "6f61baf8",
       "c514f3af", "35071145", "f24e88e2", "796db909", "f2ce91ff", "7a7581e1",
       "628c0593", "83cbe355", "3cfe5e90", "01db4a1b", "7e0d28d4", "f10b68be",
       "35dec411", "042fa854", "0a66859b", "747edf4f", "a4394c8f", "ed583f69",
       "b32625bd", "73bdbcc3", "6335b247", "cd36e5bf", "b1c2c0e6", "55c97fef",
       "ecba7d2b", "2981abb4", "adce9aae" >>

NCells == Len(CellOrder)

\* a statement: the global names it reads and the global names it binds
S(r, w) == [r |-> r, w |-> w]

\* the statements of each code cell, in order
Stmts(id) ==
    CASE id = "3f9f42c9" ->
            << S({}, {"np"}), S({}, {"pd"}), S({}, {"stats"}), S({}, {"plt"}),
               S({}, {"Poisson"}), S({}, {"PoissonDiagnostic"}) >>
      [] id = "4a85c587" ->
            << S({"np"}, {}),
               S({}, {"nr"}),
               S({}, {"n_groups"}),
               S({"np", "n_groups"}, {"labels"}),
               S({"np", "labels", "nr"}, {"x"}),
               S({"x"}, {"nobs"}),
               S({"x", "labels", "np"}, {"exog"}),
               S({"np", "x"}, {"xc"}),
               S({"np", "exog", "xc"}, {"exog"}),
               S({"np"}, {"beta"}),
               S({"exog", "beta"}, {"linpred"}),
               S({"np", "linpred"}, {"mean"}),
               S({"np", "mean"}, {"y"}),
               S({"y"}, {}),
               S({"Poisson", "y", "exog"}, {"res"}),
               S({"res"}, {}) >>
      [] id = "35c50372" -> << >>
      [] id = "4fb15ec2" -> << S({"res"}, {}) >>
      [] id = "a71b50a3" -> << S({"res"}, {}) >>
      [] id = "898bb259" -> << S({"res", "xc"}, {}) >>
      [] id = "5c7fd63e" -> << S({"res"}, {"linpred"}), S({"res", "linpred"}, {}) >>
      [] id = "3e782b14" ->
            << S({}, {"n"}),
               S({"np", "n"}, {"exc"}),
               S({"np", "n", "exc"}, {"ex1"}),
               S({"np", "n", "exc"}, {"ex2"}),
               S({"res", "ex1"}, {"m1"}),
               S({"res", "ex2"}, {"m2"}) >>
      [] id = "eea3c225" -> << S({"m1"}, {}) >>
      [] id = "a2a25e09" ->
            << S({"plt", "exc", "np", "m1", "m2"}, {}),
               S({"m1"}, {"ci"}),
               S({"plt", "exc", "ci"}, {}),
               S({"m2"}, {"ci"}),
               S({"plt", "exc", "ci"}, {}) >>
      [] id = "1beaeb7a" -> << S({"y"}, {}) >>
      [] id = "6f61baf8" ->
            << S({}, {"y_max"}),
               S({"res", "ex1", "np", "y_max"}, {"f1"}),
               S({"res", "ex2", "np", "y_max"}, {"f2"}),
               S({"f1", "f2"}, {}) >>
      [] id = "c514f3af" ->
            << S({"res", "ex1", "np", "y_max"}, {"f1"}),
               S({"res", "ex2", "np", "y_max"}, {"f2"}),
               S({"f1", "f2"}, {}) >>
      [] id = "35071145" -> << S({"f1"}, {}) >>
      [] id = "f24e88e2" -> << S({"f2"}, {}) >>
      [] id = "796db909" -> << S({"res"}, {"distr"}), S({"distr"}, {}) >>
      [] id = "f2ce91ff" -> << S({"distr"}, {}) >>
      [] id = "7a7581e1" -> << S({"distr"}, {}) >>
      [] id = "628c0593" -> << S({"res"}, {}) >>
      [] id = "83cbe355" ->
            << S({"res", "ex1"}, {"distr1"}), S({"res", "ex2"}, {"distr2"}) >>
      [] id = "3cfe5e90" -> << S({"distr1", "distr2"}, {}) >>
      [] id = "01db4a1b" -> << S({"plt", "exc", "np", "distr1", "distr2"}, {}) >>
      [] id = "7e0d28d4" -> << S({"plt", "exc", "np", "distr1", "distr2"}, {}) >>
      [] id = "f10b68be" -> << S({"distr1", "distr2"}, {}) >>
      [] id = "35dec411" -> << S({"res"}, {"dia"}), S({"dia"}, {}) >>
      [] id = "042fa854" -> << S({"dia"}, {}) >>
      [] id = "0a66859b" -> << S({"dia"}, {"td"}), S({"td"}, {}) >>
      [] id = "747edf4f" -> << S({"td"}, {"df"}), S({"df"}, {}) >>
      [] id = "a4394c8f" -> << S({"dia"}, {}) >>
      [] id = "ed583f69" -> << S({"dia", "np"}, {}) >>
      [] id = "b32625bd" -> << S({"dia", "np"}, {"dt"}), S({"dt"}, {}) >>
      [] id = "73bdbcc3" -> << S({"dt"}, {}) >>
      [] id = "6335b247" -> << S({"dia"}, {}) >>
      [] id = "cd36e5bf" -> << S({"res"}, {"infl"}), S({"infl"}, {}) >>
      [] id = "b1c2c0e6" -> << S({"infl"}, {}) >>
      [] id = "55c97fef" -> << S({"infl"}, {}) >>
      [] id = "ecba7d2b" -> << S({"infl"}, {"df_infl"}), S({"df_infl"}, {}) >>
      [] id = "2981abb4" -> << S({"df_infl"}, {}) >>
      [] id = "adce9aae" -> << S({"df_infl"}, {}) >>

\* run statements in order against the set of bound names: the names bound
\* on the way, and the names of the first statement that reads an unbound
\* name (NameError), after which nothing more is run
RECURSIVE RunStmts(_, _, _)
RunStmts(bound, stmts, binds) ==
    IF stmts = <<>> THEN [missing |-> {}, binds |-> binds]
    ELSE IF ~(Head(stmts).r \subseteq bound)
         THEN [missing |-> Head(stmts).r \ bound, binds |-> binds]
         ELSE RunStmts(bound \cup Head(stmts).w, Tail(stmts), binds \cup Head(stmts).w)

\* the names a cell reads before it has bound them itself
Missing(id, env) == RunStmts(DOMAIN env, Stmts(id), {}).missing

\* the names a cell binds
Binds(id) == UNION {Stmts(id)[i].w : i \in 1..Len(Stmts(id))}

-----------------------------------------------------------------------------
(* The values the cells compute.  Bind_<cell>(env) is the record of the    *)
(* names the cell binds, Show_<cell>(env) the value it displays.           *)

Bind_3f9f42c9 ==
    [np |-> "module", pd |-> "module", stats |-> "module", plt |-> "module",
     Poisson |-> "class", PoissonDiagnostic |-> "class"]

\* the group sizes without the factor nr
GroupSizes_withoutNr == <<40, 60>>

\* np.array([40, 60]) * nr
GroupSizes == <<40 * nr, 60 * nr>>

\* (x[:, None] == labels).astype(np.float64)
Indicators(x, labels) ==
    [i \in 1..Len(x) |->
        [j \in 1..Len(labels) |-> IF x[i] = labels[j] THEN ONE ELSE 0]]

\* the design with the commented-out reparameterization "exog[:, 1] = 1"
Design_explicitConstant(x, labels, xc) ==
    [i \in 1..Len(x) |->
        [ColumnStack(Indicators(x, labels), xc)[i] EXCEPT ![2] = ONE]]

\* exog: the indicator columns with xc stacked as last column
\* (the reparameterization "exog[:, 1] = 1" is commented out)
Design(x, labels, xc) == ColumnStack(Indicators(x, labels), xc)

\* np.array([0.2, 0.3, 0.5], np.float64)
Beta == <<(2 * ONE) \div 10, (3 * ONE) \div 10, (5 * ONE) \div 10>>

\* cell 4a85c587, with the seed of the random stream and the parameters
\* that fit returns
Bind_4a85c587(seed, params) ==
    LET labels  == Arange(n_groups)
        x       == Repeat(labels, GroupSizes)
        xc      == Rand(seed, 0, Len(x))
        exog    == Design(x, labels, xc)
        linpred == MatVec(exog, Beta)
        mean    == [i \in 1..Len(linpred) |-> Exp(linpred[i])]
        y       == RandPoisson(seed, Len(x), mean)
    IN  [nr |-> nr, n_groups |-> n_groups, labels |-> labels, x |-> x,
         nobs |-> Len(x), xc |-> xc, exog |-> exog, beta |-> Beta,
         linpred |-> linpred, mean |-> mean, y |-> y,
         res |-> Results(y, exog, params)]

Bind_5c7fd63e(env) == [linpred |-> ResPredict(env.res, "linear")]

\* the grid bound to the name x instead of exc
Bind_3e782b14_gridNamedX(env) ==
    LET exc == Linspace01(n)
        ex1 == [i \in 1..n |-> <<ONE, 0, exc[i]>>]
        ex2 == [i \in 1..n |-> <<0, ONE, exc[i]>>]
    IN  [n |-> n, x |-> exc, exc |-> exc, ex1 |-> ex1, ex2 |-> ex2,
         m1 |-> GetPrediction(env.res, ex1, "mean", <<>>, FALSE),
         m2 |-> GetPrediction(env.res, ex2, "mean", <<>>, FALSE)]

Bind_3e782b14(env) ==
    LET exc == Linspace01(n)
        ex1 == [i \in 1..n |-> <<ONE, 0, exc[i]>>]
        ex2 == [i \in 1..n |-> <<0, ONE, exc[i]>>]
    IN  [n |-> n, exc |-> exc, ex1 |-> ex1, ex2 |-> ex2,
         m1 |-> GetPrediction(env.res, ex1, "mean", <<>>, FALSE),
         m2 |-> GetPrediction(env.res, ex2, "mean", <<>>, FALSE)]

\* pred.conf_int(): an interval around each prediction
ConfInt(pred) == [kind |-> "conf_int", around |-> pred.predicted]

\* the last binding of ci in the cell is the one that stays
Bind_a2a25e09(env) == [ci |-> ConfInt(env.m2)]

Show_1beaeb7a(env) ==
    CHOOSE m \in {env.y[i] : i \in 1..Len(env.y)} :
        \A i \in 1..Len(env.y) : env.y[i] <= m

Bind_6f61baf8(env) ==
    [y_max |-> y_max,
     f1 |-> GetPrediction(env.res, env.ex1, "prob", Arange(y_max + 1), FALSE),
     f2 |-> GetPrediction(env.res, env.ex2, "prob", Arange(y_max + 1), FALSE)]

\* f1.predicted.mean(0), f2.predicted.mean(0)
Show_6f61baf8(env) ==
    << MeanAxis0(env.f1.predicted), MeanAxis0(env.f2.predicted) >>

\* the averaged predictions with the two grids exchanged
Bind_c514f3af_gridsExchanged(env) ==
    [f1 |-> GetPrediction(env.res, env.ex2, "prob", Arange(env.y_max + 1), TRUE),
     f2 |-> GetPrediction(env.res, env.ex1, "prob", Arange(env.y_max + 1), TRUE)]

Bind_c514f3af(env) ==
    [f1 |-> GetPrediction(env.res, env.ex1, "prob", Arange(env.y_max + 1), TRUE),
     f2 |-> GetPrediction(env.res, env.ex2, "prob", Arange(env.y_max + 1), TRUE)]

\* f1.predicted, f2.predicted
Show_c514f3af(env) == << env.f1.predicted, env.f2.predicted >>

\* the distribution taken on the grid ex1 instead of the model's exog
Bind_796db909_onGrid(env) == [distr |-> GetDistribution(env.res, env.ex1)]

Bind_796db909(env) == [distr |-> GetDistribution(env.res, env.res.exog)]

Show_f2ce91ff(env) == FirstRows(DistPmf(env.distr, 0), 10)

Show_7a7581e1(env) == FirstRows(DistMean(env.distr), 10)

Show_628c0593(env) == FirstRows(ResPredict(env.res, "mean"), 10)

Bind_83cbe355(env) ==
    [distr1 |-> GetDistribution(env.res, env.ex1),
     distr2 |-> GetDistribution(env.res, env.ex2)]

\* the survival function taken at 4
Show_3cfe5e90_at4(env) == << DistSf(env.distr1, 4), DistSf(env.distr2, 4) >>

\* distr1.sf(5), distr2.sf(5)
Show_3cfe5e90(env) == << DistSf(env.distr1, 5), DistSf(env.distr2, 5) >>

\* the diagnostic objects; their statistics are not modelled
Bind_35dec411(env) == [dia |-> [kind |-> "PoissonDiagnostic", results |-> env.res]]
Bind_0a66859b(env) == [td |-> [kind |-> "DispersionResults", of |-> env.dia]]
Bind_747edf4f(env) == [df |-> [kind |-> "DataFrame", of |-> env.td]]
Bind_b32625bd(env) == [dt |-> [kind |-> "chisquare_prob", of |-> env.dia, bins |-> 6]]

Bind_cd36e5bf(env) == [infl |-> GetInfluence(env.res)]

Bind_ecba7d2b(env) == [df_infl |-> SummaryFrame(env.infl)]

\* df_infl.head()
Show_ecba7d2b(env) == FirstRows(env.df_infl, 5)

\* the listing sorted in ascending order
Show_2981abb4_ascending(env) == SortValuesHead(env.df_infl, "cooks_d", TRUE, 10)

\* df_infl.sort_values("cooks_d", ascending=False)[:10]
Show_2981abb4(env) == SortValuesHead(env.df_infl, "cooks_d", FALSE, 10)

\* df_infl.sort_values("standard_resid", ascending=False)[:10]
Show_adce9aae(env) == SortValuesHead(env.df_infl, "standard_resid", FALSE, 10)

-----------------------------------------------------------------------------
(* Execution: Run All, one cell after the other *)

Init ==
    /\ pc = 1
    /\ ns = << >>
    /\ out = << >>
    /\ err = {}
    /\ last = {}
    /\ fits = 0
    /\ probRows = << >>

\* execute cell id: bind new and display shown, or stop with NameError
Exec(id, new, shown) ==
    /\ pc <= NCells
    /\ CellOrder[pc] = id
    /\ err = {}
    /\ IF Missing(id, ns) = {}
       THEN /\ ns' = new @@ ns
            /\ out' = (id :> shown) @@ out
            /\ last' = DOMAIN new
            /\ pc' = pc + 1
            /\ err' = {}
       ELSE /\ err' = Missing(id, ns)
            /\ UNCHANGED <<pc, ns, out, last>>

Completes(id) == Missing(id, ns) = {}

Cell_3f9f42c9 ==
    /\ Exec("3f9f42c9", Bind_3f9f42c9, "none")
    /\ UNCHANGED <<fits, probRows>>

Cell_4a85c587 ==
    /\ \E seed \in 0..MaxSeed : \E params \in FitChoices(Len(Beta)) :
          Exec("4a85c587", Bind_4a85c587(seed, params), "printed")
    /\ fits' = IF Completes("4a85c587") THEN fits + 1 ELSE fits
    /\ UNCHANGED probRows

Cell_5c7fd63e ==
    /\ Exec("5c7fd63e", Bind_5c7fd63e(ns), "score_test")
    /\ UNCHANGED <<fits, probRows>>

Cell_3e782b14 ==
    /\ Exec("3e782b14", Bind_3e782b14(ns), "none")
    /\ UNCHANGED <<fits, probRows>>

Cell_a2a25e09 ==
    /\ Exec("a2a25e09", Bind_a2a25e09(ns), "plot")
    /\ UNCHANGED <<fits, probRows>>

Cell_1beaeb7a ==
    /\ Exec("1beaeb7a", << >>, Show_1beaeb7a(ns))
    /\ UNCHANGED <<fits, probRows>>

Cell_6f61baf8 ==
    /\ Exec("6f61baf8", Bind_6f61baf8(ns), Show_6f61baf8(Bind_6f61baf8(ns) @@ ns))
    /\ probRows' = IF Completes("6f61baf8")
                   THEN [f1 |-> Bind_6f61baf8(ns).f1.predicted,
                         f2 |-> Bind_6f61baf8(ns).f2.predicted]
                   ELSE probRows
    /\ UNCHANGED fits

Cell_c514f3af ==
    /\ Exec("c514f3af", Bind_c514f3af(ns), Show_c514f3af(Bind_c514f3af(ns) @@ ns))
    /\ UNCHANGED <<fits, probRows>>

Cell_796db909 ==
    /\ Exec("796db909", Bind_796db909(ns), "repr")
    /\ UNCHANGED <<fits, probRows>>

Cell_f2ce91ff ==
    /\ Exec("f2ce91ff", << >>, Show_f2ce91ff(ns))
    /\ UNCHANGED <<fits, probRows>>

Cell_7a7581e1 ==
    /\ Exec("7a7581e1", << >>, Show_7a7581e1(ns))
    /\ UNCHANGED <<fits, probRows>>

Cell_628c0593 ==
    /\ Exec("628c0593", << >>, Show_628c0593(ns))
    /\ UNCHANGED <<fits, probRows>>

Cell_83cbe355 ==
    /\ Exec("83cbe355", Bind_83cbe355(ns), "none")
    /\ UNCHANGED <<fits, probRows>>

Cell_3cfe5e90 ==
    /\ Exec("3cfe5e90", << >>, Show_3cfe5e90(ns))
    /\ UNCHANGED <<fits, probRows>>

Cell_35dec411 ==
    /\ Exec("35dec411", Bind_35dec411(ns), "dir")
    /\ UNCHANGED <<fits, probRows>>

Cell_0a66859b ==
    /\ Exec("0a66859b", Bind_0a66859b(ns), "repr")
    /\ UNCHANGED <<fits, probRows>>

Cell_747edf4f ==
    /\ Exec("747edf4f", Bind_747edf4f(ns), "repr")
    /\ UNCHANGED <<fits, probRows>>

Cell_b32625bd ==
    /\ Exec("b32625bd", Bind_b32625bd(ns), "repr")
    /\ UNCHANGED <<fits, probRows>>

Cell_cd36e5bf ==
    /\ Exec("cd36e5bf", Bind_cd36e5bf(ns), "dir")
    /\ UNCHANGED <<fits, probRows>>

Cell_ecba7d2b ==
    /\ Exec("ecba7d2b", Bind_ecba7d2b(ns), Show_ecba7d2b(Bind_ecba7d2b(ns) @@ ns))
    /\ UNCHANGED <<fits, probRows>>

Cell_2981abb4 ==
    /\ Exec("2981abb4", << >>, Show_2981abb4(ns))
    /\ UNCHANGED <<fits, probRows>>

Cell_adce9aae ==
    /\ Exec("adce9aae", << >>, Show_adce9aae(ns))
    /\ UNCHANGED <<fits, probRows>>

\* the cells that bind nothing and whose displayed test result, table or
\* plot is not modelled (the empty cell 35c50372 among them)
PlainCells ==
    { "35c50372", "4fb15ec2", "a71b50a3", "898bb259", "eea3c225", "35071145",
      "f24e88e2", "01db4a1b", "7e0d28d4", "f10b68be", "042fa854", "a4394c8f",
      "ed583f69", "73bdbcc3", "6335b247", "b1c2c0e6", "55c97fef" }

Cell_plain ==
    /\ \E id \in PlainCells : Exec(id, << >>, "shown")
    /\ UNCHANGED <<fits, probRows>>

Next ==
    \/ Cell_3f9f42c9 \/ Cell_4a85c587 \/ Cell_5c7fd63e \/ Cell_3e782b14
    \/ Cell_a2a25e09 \/ Cell_1beaeb7a \/ Cell_6f61baf8 \/ Cell_c514f3af
    \/ Cell_796db909 \/ Cell_f2ce91ff \/ Cell_7a7581e1 \/ Cell_628c0593
    \/ Cell_83cbe355 \/ Cell_3cfe5e90 \/ Cell_35dec411 \/ Cell_0a66859b
    \/ Cell_747edf4f \/ Cell_b32625bd \/ Cell_cd36e5bf \/ Cell_ecba7d2b
    \/ Cell_2981abb4 \/ Cell_adce9aae \/ Cell_plain

Spec == Init /\ [][Next]_vars

-----------------------------------------------------------------------------
(* Properties *)

Bound(nm) == nm \in DOMAIN ns
Shown(id) == id \in DOMAIN out
CellIndex(id) == CHOOSE i \in 1..NCells : CellOrder[i] = id
FitCell == "4a85c587"
Finished == pc = NCells + 1

\* the names a cell reads
Reads(id) == UNION {Stmts(id)[i].r : i \in 1..Len(Stmts(id))}

\* the position in the fit cell of the first statement that binds nm
StmtBinding(nm) ==
    CHOOSE i \in 1..Len(Stmts(FitCell)) :
        /\ nm \in Stmts(FitCell)[i].w
        /\ \A j \in 1..(i - 1) : nm \notin Stmts(FitCell)[j].w

TrackedNames ==
    { "res", "xc", "linpred", "exc", "ex1", "ex2", "y_max", "m1", "m2", "f1",
      "f2", "distr", "distr1", "distr2", "dia", "td", "dt", "infl", "df_infl" }

\* C1: a run from top to bottom is one sequential run: no cell reads a name
\* that no earlier cell (or earlier statement) has bound, the data are
\* simulated before the model is fit, the model is fit exactly once, and
\* every cell that uses res or a name derived from it runs after the fit.
C1_SequentialRun ==
    /\ err = {}
    /\ fits <= 1
    /\ (fits = 1) <=> Bound("res")
    /\ (fits = 1) <=> (pc > CellIndex(FitCell))
    /\ \A nm \in {"x", "xc", "exog", "linpred", "mean", "y"} :
          StmtBinding(nm) < StmtBinding("res")
    /\ \A i \in 1..(pc - 1) :
          /\ Reads(CellOrder[i]) \cap TrackedNames # {} => i >= CellIndex(FitCell)
          /\ i # CellIndex(FitCell) /\ "res" \in Reads(CellOrder[i])
                => i > CellIndex(FitCell)
    /\ Finished => fits = 1

C1_Witness == Finished /\ fits = 1 /\ err = {} /\ Bound("df_infl")

DataNames == {"res", "x", "xc", "exog", "y", "beta", "mean"}

ResultNames ==
    { "linpred", "n", "exc", "ex1", "ex2", "m1", "m2", "ci", "y_max", "f1",
      "f2", "distr", "distr1", "distr2", "dia", "td", "df", "dt", "infl",
      "df_infl" }

\* C2: once the fit cell has run, every later cell leaves res and the
\* simulated data x, xc, exog, y, beta, mean bound to the same values and
\* binds only result names.
C2_DataUnchanged ==
    [][ pc > CellIndex(FitCell) =>
            /\ \A nm \in DataNames : nm \in DOMAIN ns' /\ ns'[nm] = ns[nm]
            /\ last' \subseteq ResultNames ]_vars

C2_Witness ==
    /\ pc > CellIndex("5c7fd63e")
    /\ last = {"linpred"}
    /\ ns.linpred # MatVec(ns.exog, ns.beta)

\* C3: the example has 1000 observations: x is 400 zeros followed by 600
\* ones, nobs is 1000, xc, exog, linpred, mean and y have length 1000, and
\* the fitted model and the influence summary frame have one entry per
\* observation.
C3_Observations ==
    /\ Bound("res") =>
          /\ ns.x = [i \in 1..1000 |-> IF i <= 400 THEN 0 ELSE 1]
          /\ ns.nobs = 1000
          /\ \A nm \in {"xc", "exog", "linpred", "mean", "y"} : Len(ns[nm]) = 1000
          /\ ns.res.nobs = 1000
          /\ Len(ns.res.endog) = 1000 /\ Len(ns.res.exog) = 1000
    /\ Bound("df_infl") =>
          /\ Len(ns.df_infl) = 1000
          /\ \A i \in 1..Len(ns.df_infl) : ns.df_infl[i].obs = i - 1

C3_Witness == Bound("df_infl") /\ Len(ns.df_infl) = 1000 /\ Len(ns.y) = 1000

\* C4: every row of the design matrix passed to Poisson has three columns:
\* the indicators of the two levels of x, exactly one of them 1 and column
\* j equal to 1 iff x = j, then xc; there is no constant column and the
\* number of columns is the length of beta.
C4_DesignMatrix ==
    Bound("res") =>
        /\ ns.res.exog = ns.exog
        /\ Len(ns.beta) = 3
        /\ \A i \in 1..Len(ns.exog) :
              LET row == ns.exog[i]
              IN  /\ Len(row) = 3
                  /\ Len(row) = Len(ns.beta)
                  /\ \A j \in 0..1 : /\ row[j + 1] \in {0, ONE}
                                     /\ row[j + 1] = ONE <=> ns.x[i] = j
                  /\ Cardinality({j \in 1..2 : row[j] = ONE}) = 1
                  /\ row[3] = ns.xc[i]
        /\ \A j \in 1..3 : \E i \in 1..Len(ns.exog) : ns.exog[i][j] # ONE

C4_Witness ==
    /\ Bound("res")
    /\ \E i \in 1..Len(ns.exog) : ns.exog[i][1] = ONE /\ ns.exog[i][3] > 0
    /\ \E i \in 1..Len(ns.exog) : ns.exog[i][2] = ONE /\ ns.exog[i][3] > 0

\* the average over the rows of column k
ColumnAverage(rows, k) ==
    SumSeq([r \in 1..Len(rows) |-> rows[r][k]]) \div Len(rows)

IsTop10(rows, df, col) ==
    /\ Len(rows) = 10
    /\ \A a \in 1..9 : rows[a][col] >= rows[a + 1][col]
    /\ \A a \in 1..10 : rows[a].obs + 1 \in 1..Len(df) /\ df[rows[a].obs + 1] = rows[a]
    /\ \A a, b \in 1..10 : a # b => rows[a].obs # rows[b].obs
    /\ \A i \in 1..Len(df) :
          (\A a \in 1..10 : rows[a].obs # df[i].obs)
              => \A a \in 1..10 : df[i][col] <= rows[a][col]

\* C8: the summary frame has one row per observation, and for cooks_d and
\* standard_resid sort_values(col, ascending=False)[:10] lists exactly 10
\* rows in non-increasing order of the column, and no observation left out
\* has a larger measure than a listed one.
C8_LargestTen ==
    /\ Bound("df_infl") =>
          /\ Len(ns.df_infl) = ns.res.nobs
          /\ \A i \in 1..Len(ns.df_infl) : ns.df_infl[i].obs = i - 1
    /\ Shown("2981abb4") => IsTop10(out["2981abb4"], ns.df_infl, "cooks_d")
    /\ Shown("adce9aae") => IsTop10(out["adce9aae"], ns.df_infl, "standard_resid")

C8_Witness ==
    /\ Shown("adce9aae")
    /\ out["2981abb4"] # out["adce9aae"]
    /\ out["adce9aae"][1].standard_resid > out["adce9aae"][10].standard_resid
    /\ \E i \in 1..Len(ns.df_infl) :
          ns.df_infl[i].cooks_d < out["2981abb4"][10].cooks_d

====
